---- MODULE Spec2Model ----
(***************************************************************************)
(* Model of the 2048 board engine and of the caller-level state machine    *)
(* that drives it, both in mini-app/components/2048-game.tsx.               *)
(*                                                                         *)
(* Spec       the Game component: the mount effect seeds two tiles, then   *)
(*            handleMove is called with any of the four directions.        *)
(* SpecEngine the engine functions (line reducer, move resolver, spawner,  *)
(*            terminal detector) applied to inputs drawn from bounded sets.*)
(***************************************************************************)
EXTENDS Integers, Sequences, FiniteSets

VARIABLES
    board,      \* useState<Board>
    score,      \* useState<number>
    gameOver,   \* useState<boolean>
    pc,         \* "mount" before the mount effect has run, "playing" after
    direction,  \* argument of the latest handleMove call
    outcome,    \* path the latest handleMove call took
    input,      \* SpecEngine: the argument handed to an engine function
    output      \* SpecEngine: what the latest engine call returned

vars == <<board, score, gameOver, pc, direction, outcome, input, output>>

BOARD_SIZE == 4
TILE_VALUES == <<2, 4>>

\* Exploration bounds.
\* Math.random() * n is explored for the first MaxPick indices only.
MaxPick == 1
\* handleMove is explored while the running score stays within MaxScore.
MaxScore == 4
\* Lines handed to the line reducer hold 0 or 2^1 .. 2^MaxExp.
MaxExp == 3

Direction == {"up", "down", "left", "right"}
\* A value the type annotation excludes but the runtime switch can be handed.
BadDirection == "diagonal"

Idx == 1..BOARD_SIZE

\* Array.from / Array.prototype.map: the array f[1], ..., f[n].
RECURSIVE arrayOf(_, _)
arrayOf(f, n) == IF n = 0 THEN <<>> ELSE Append(arrayOf(f, n - 1), f[n])

createEmptyBoard == arrayOf([r \in Idx |-> arrayOf([c \in Idx |-> 0], BOARD_SIZE)], BOARD_SIZE)

\* Row-major list of the [r, c] cells of b that are empty, from cell k (0-based) on.
RECURSIVE emptyCellsFrom(_, _)
emptyCellsFrom(b, k) ==
    IF k >= BOARD_SIZE * BOARD_SIZE THEN <<>>
    ELSE LET r == (k \div BOARD_SIZE) + 1
             c == (k % BOARD_SIZE) + 1
         IN  (IF b[r][c] = 0 THEN <<(<<r, c>>)>> ELSE <<>>) \o emptyCellsFrom(b, k + 1)

emptyCells(b) == emptyCellsFrom(b, 0)

\* Math.floor(Math.random() * n): an index in 0..n-1.
randomIndex(n) == {i \in 0..(n - 1) : i < MaxPick}

\* Mutant: the new tile takes the index into TILE_VALUES instead of the value.
addRandomTileIndexAsValue(b) ==
    LET cells == emptyCells(b)
    IN  IF Len(cells) = 0 THEN {b}
        ELSE {[b EXCEPT ![cells[i + 1][1]][cells[i + 1][2]] = t] :
                 i \in randomIndex(Len(cells)), t \in {1, 2}}

\* Mutant: the cell is drawn from all the cells, the occupied ones as well.
addRandomTileAnyCell(b) ==
    LET cells == emptyCells(b)
    IN  IF Len(cells) = 0 THEN {b}
        ELSE {[b EXCEPT ![(i \div BOARD_SIZE) + 1][(i % BOARD_SIZE) + 1] = TILE_VALUES[t]] :
                 i \in randomIndex(BOARD_SIZE * BOARD_SIZE), t \in {1, 2}}

\* The set of boards addRandomTile can return.
addRandomTile(b) ==
    LET cells == emptyCells(b)
    IN  IF Len(cells) = 0 THEN {b}
        ELSE {[b EXCEPT ![cells[i + 1][1]][cells[i + 1][2]] = TILE_VALUES[t]] :
                 i \in randomIndex(Len(cells)), t \in {1, 2}}

RECURSIVE padZeros(_)
padZeros(row) == IF Len(row) < BOARD_SIZE THEN padZeros(Append(row, 0)) ELSE row

compress(row) == padZeros(SelectSeq(row, LAMBDA v : v # 0))

\* Mutant: after a merge the row is packed at once and the doubled tile is
\* examined again against its new neighbour.
RECURSIVE mergeLoopRevisit(_, _, _)
mergeLoopRevisit(newRow, i, scoreDelta) ==
    IF i >= BOARD_SIZE - 1 THEN [newRow |-> newRow, scoreDelta |-> scoreDelta]
    ELSE IF newRow[i + 1] # 0 /\ newRow[i + 1] = newRow[i + 2]
         THEN LET doubled == newRow[i + 1] * 2
                  r2 == compress([newRow EXCEPT ![i + 1] = doubled, ![i + 2] = 0])
              IN  mergeLoopRevisit(r2, i, scoreDelta + doubled)
         ELSE mergeLoopRevisit(newRow, i + 1, scoreDelta)

\* Mutant: the right tile of a merged pair is not cleared.
RECURSIVE mergeLoopKeepRight(_, _, _)
mergeLoopKeepRight(newRow, i, scoreDelta) ==
    IF i >= BOARD_SIZE - 1 THEN [newRow |-> newRow, scoreDelta |-> scoreDelta]
    ELSE IF newRow[i + 1] # 0 /\ newRow[i + 1] = newRow[i + 2]
         THEN LET doubled == newRow[i + 1] * 2
                  r2 == [newRow EXCEPT ![i + 1] = doubled]
              IN  mergeLoopKeepRight(r2, i + 1, scoreDelta + doubled)
         ELSE mergeLoopKeepRight(newRow, i + 1, scoreDelta)

\* The for loop of merge, from index i (0-based) on.
RECURSIVE mergeLoop(_, _, _)
mergeLoop(newRow, i, scoreDelta) ==
    IF i >= BOARD_SIZE - 1 THEN [newRow |-> newRow, scoreDelta |-> scoreDelta]
    ELSE IF newRow[i + 1] # 0 /\ newRow[i + 1] = newRow[i + 2]
         THEN LET doubled == newRow[i + 1] * 2
                  r2 == [newRow EXCEPT ![i + 1] = doubled, ![i + 2] = 0]
              IN  mergeLoop(r2, i + 1, scoreDelta + doubled)
         ELSE mergeLoop(newRow, i + 1, scoreDelta)

merge(row) ==
    LET out == mergeLoop(row, 0, 0)
    IN  [mergedRow |-> compress(out.newRow), scoreDelta |-> out.scoreDelta]

transpose(b) ==
    arrayOf([i \in Idx |-> arrayOf([r \in Idx |-> b[r][i]], BOARD_SIZE)], BOARD_SIZE)

reverseRow(row) == arrayOf([c \in Idx |-> row[BOARD_SIZE + 1 - c]], BOARD_SIZE)

reverse(b) == arrayOf([r \in Idx |-> reverseRow(b[r])], BOARD_SIZE)

\* The callback moveLeft maps over the rows: compress, then merge.
reduceLeft(row) == merge(compress(row))

RECURSIVE sumDeltas(_, _)
sumDeltas(rows, r) ==
    IF r > BOARD_SIZE THEN 0 ELSE rows[r].scoreDelta + sumDeltas(rows, r + 1)

moveLeft(b) ==
    LET rows == arrayOf([r \in Idx |-> reduceLeft(b[r])], BOARD_SIZE)
    IN  [newBoard |-> arrayOf([r \in Idx |-> rows[r].mergedRow], BOARD_SIZE),
         scoreDelta |-> sumDeltas(rows, 1)]

moveRight(b) ==
    LET m == moveLeft(reverse(b))
    IN  [newBoard |-> reverse(m.newBoard), scoreDelta |-> m.scoreDelta]

moveUp(b) ==
    LET m == moveLeft(transpose(b))
    IN  [newBoard |-> transpose(m.newBoard), scoreDelta |-> m.scoreDelta]

moveDown(b) ==
    LET m == moveRight(transpose(b))
    IN  [newBoard |-> transpose(m.newBoard), scoreDelta |-> m.scoreDelta]

\* Mutant: the neighbour below is not compared.
RECURSIVE hasMovesFromNoBelow(_, _)
hasMovesFromNoBelow(b, k) ==
    IF k >= BOARD_SIZE * BOARD_SIZE THEN FALSE
    ELSE LET r == (k \div BOARD_SIZE) + 1
             c == (k % BOARD_SIZE) + 1
         IN  IF b[r][c] = 0 THEN TRUE
             ELSE IF c < BOARD_SIZE /\ b[r][c] = b[r][c + 1] THEN TRUE
             ELSE hasMovesFromNoBelow(b, k + 1)

\* The scan of hasMoves from cell k (row-major, 0-based) on, with its early returns.
RECURSIVE hasMovesFrom(_, _)
hasMovesFrom(b, k) ==
    IF k >= BOARD_SIZE * BOARD_SIZE THEN FALSE
    ELSE LET r == (k \div BOARD_SIZE) + 1
             c == (k % BOARD_SIZE) + 1
         IN  IF b[r][c] = 0 THEN TRUE
             ELSE IF c < BOARD_SIZE /\ b[r][c] = b[r][c + 1] THEN TRUE
             ELSE IF r < BOARD_SIZE /\ b[r][c] = b[r + 1][c] THEN TRUE
             ELSE hasMovesFrom(b, k + 1)

hasMoves(b) == hasMovesFrom(b, 0)

\* What `result` holds when no case of the switch matched.
Undefined == [undefined |-> TRUE]

\* Mutant: the switch has a default case that moves left.
resolveDefaultLeft(b, d) ==
    CASE d = "up" -> moveUp(b)
      [] d = "down" -> moveDown(b)
      [] d = "right" -> moveRight(b)
      [] OTHER -> moveLeft(b)

\* The switch of handleMove.
resolve(b, d) ==
    CASE d = "up" -> moveUp(b)
      [] d = "down" -> moveDown(b)
      [] d = "left" -> moveLeft(b)
      [] d = "right" -> moveRight(b)
      [] OTHER -> Undefined

\* const { newBoard, scoreDelta } = result: destructuring undefined throws.
destructure(result) ==
    IF result = Undefined
    THEN [threw |-> "TypeError"]
    ELSE [threw |-> "nothing", newBoard |-> result.newBoard,
          scoreDelta |-> result.scoreDelta]

NoCall == [op |-> "none"]
NoInput == [kind |-> "none"]

(***************************************************************************)
(* The Game component.                                                     *)
(***************************************************************************)
Init ==
    /\ board = createEmptyBoard
    /\ score = 0
    /\ gameOver = FALSE
    /\ pc = "mount"
    /\ direction = "none"
    /\ outcome = "none"
    /\ input = NoInput
    /\ output = NoCall

\* Mutant: the mount effect seeds nothing.
SeedEffectNoTiles ==
    /\ pc = "mount"
    /\ pc' = "playing"
    /\ UNCHANGED <<board, score, gameOver, direction, outcome, input, output>>

\* The mount effect: two seeding spawns.
SeedEffect ==
    /\ pc = "mount"
    /\ \E b1 \in addRandomTile(board) : board' \in addRandomTile(b1)
    /\ pc' = "playing"
    /\ UNCHANGED <<score, gameOver, direction, outcome, input, output>>

\* Mutant: the terminal check looks at the board before the spawn.
handleMoveCheckBeforeSpawn(d) ==
    /\ pc = "playing"
    /\ direction' = d
    /\ IF gameOver
       THEN /\ outcome' = "ignored"
            /\ UNCHANGED <<board, score, gameOver>>
       ELSE \E result \in {destructure(resolve(board, d))} :
                IF result.newBoard # board
                THEN /\ score + result.scoreDelta <= MaxScore
                     /\ board' \in addRandomTile(result.newBoard)
                     /\ gameOver' = (gameOver \/ ~hasMoves(result.newBoard))
                     /\ score' = score + result.scoreDelta
                     /\ outcome' = "accepted"
                ELSE /\ outcome' = "rejected"
                     /\ UNCHANGED <<board, score, gameOver>>
    /\ UNCHANGED <<pc, input, output>>

\* Mutant: the spawn and the updates are not guarded by the board comparison.
handleMoveAlwaysSpawn(d) ==
    /\ pc = "playing"
    /\ direction' = d
    /\ IF gameOver
       THEN /\ outcome' = "ignored"
            /\ UNCHANGED <<board, score, gameOver>>
       ELSE \E result \in {destructure(resolve(board, d))} :
                /\ score + result.scoreDelta <= MaxScore
                /\ \E updatedBoard \in addRandomTile(result.newBoard) :
                      /\ board' = updatedBoard
                      /\ gameOver' = (gameOver \/ ~hasMoves(updatedBoard))
                /\ score' = score + result.scoreDelta
                /\ outcome' = IF result.newBoard # board THEN "accepted" ELSE "rejected"
    /\ UNCHANGED <<pc, input, output>>

\* Mutant: the early return on gameOver is missing.
handleMoveNoGuard(d) ==
    /\ pc = "playing"
    /\ direction' = d
    /\ \E result \in {destructure(resolve(board, d))} :
           IF result.newBoard # board
           THEN /\ score + result.scoreDelta <= MaxScore
                /\ \E updatedBoard \in addRandomTile(result.newBoard) :
                      /\ board' = updatedBoard
                      /\ gameOver' = (gameOver \/ ~hasMoves(updatedBoard))
                /\ score' = score + result.scoreDelta
                /\ outcome' = "accepted"
           ELSE /\ outcome' = "rejected"
                /\ UNCHANGED <<board, score, gameOver>>
    /\ UNCHANGED <<pc, input, output>>

\* handleMove(direction), called by one of the four buttons.
handleMove(d) ==
    /\ pc = "playing"
    /\ direction' = d
    /\ IF gameOver
       THEN /\ outcome' = "ignored"
            /\ UNCHANGED <<board, score, gameOver>>
       ELSE \E result \in {destructure(resolve(board, d))} :
                IF result.newBoard # board
                THEN /\ score + result.scoreDelta <= MaxScore
                     /\ \E updatedBoard \in addRandomTile(result.newBoard) :
                           /\ board' = updatedBoard
                           /\ gameOver' = (gameOver \/ ~hasMoves(updatedBoard))
                     /\ score' = score + result.scoreDelta
                     /\ outcome' = "accepted"
                ELSE /\ outcome' = "rejected"
                     /\ UNCHANGED <<board, score, gameOver>>
    /\ UNCHANGED <<pc, input, output>>

Next ==
    \/ SeedEffect
    \/ \E d \in Direction : handleMove(d)

Spec == Init /\ [][Next]_vars

(***************************************************************************)
(* The engine functions on their own, applied to bounded inputs.           *)
(***************************************************************************)
Tiles == {0} \cup {2 ^ k : k \in 1..MaxExp}

Lines == {arrayOf(f, BOARD_SIZE) : f \in [Idx -> Tiles]}

\* Rows the boards handed to the engine are assembled from: empty, gapped,
\* two pairs, one pair, and the two alternating full rows.
RowPool ==
    {<<0, 0, 0, 0>>, <<2, 0, 2, 4>>, <<2, 2, 2, 2>>, <<4, 4, 2, 8>>,
     <<2, 4, 2, 4>>, <<4, 2, 4, 2>>}

Boards == {<<a, b, c, d>> : a \in RowPool, b \in RowPool, c \in RowPool, d \in RowPool}

EngineInputs ==
    {[kind |-> "line", line |-> l] : l \in Lines}
        \cup {[kind |-> "board", board |-> b] : b \in Boards}

InitEngine ==
    /\ board = createEmptyBoard
    /\ score = 0
    /\ gameOver = FALSE
    /\ pc = "mount"
    /\ direction = "none"
    /\ outcome = "none"
    /\ input \in EngineInputs
    /\ output = NoCall

gameVars == <<board, score, gameOver, pc, direction, outcome>>

\* The line reducer on one line.
CallReduceLeft ==
    /\ input.kind = "line"
    /\ output' = [op |-> "reduceLeft", result |-> reduceLeft(input.line)]
    /\ UNCHANGED <<gameVars, input>>

\* The switch and the destructuring of handleMove on a board and any direction value.
CallResolve(d) ==
    /\ input.kind = "board"
    /\ output' = [op |-> "resolve", direction |-> d,
                  result |-> destructure(resolve(input.board, d))]
    /\ UNCHANGED <<gameVars, input>>

CallAddRandomTile ==
    /\ input.kind = "board"
    /\ \E nb \in addRandomTile(input.board) :
          output' = [op |-> "addRandomTile", board |-> nb]
    /\ UNCHANGED <<gameVars, input>>

CallHasMoves ==
    /\ input.kind = "board"
    /\ output' = [op |-> "hasMoves", value |-> hasMoves(input.board)]
    /\ UNCHANGED <<gameVars, input>>

NextEngine ==
    \/ CallReduceLeft
    \/ \E d \in Direction \cup {BadDirection} : CallResolve(d)
    \/ CallAddRandomTile
    \/ CallHasMoves

SpecEngine == InitEngine /\ [][NextEngine]_vars

(***************************************************************************)
(* Measures used by the properties.                                        *)
(***************************************************************************)
nonZero(row) == SelectSeq(row, LAMBDA v : v # 0)

RECURSIVE seqSum(_)
seqSum(s) == IF Len(s) = 0 THEN 0 ELSE Head(s) + seqSum(Tail(s))

RECURSIVE boardSumFrom(_, _)
boardSumFrom(b, r) == IF r > BOARD_SIZE THEN 0 ELSE seqSum(b[r]) + boardSumFrom(b, r + 1)

boardSum(b) == boardSumFrom(b, 1)

tileCount(b) == Cardinality({rc \in Idx \X Idx : b[rc[1]][rc[2]] # 0})

RECURSIVE isDoublingOfTwo(_)
isDoublingOfTwo(v) == v = 2 \/ (v > 2 /\ v % 2 = 0 /\ isDoublingOfTwo(v \div 2))

\* The ways to cut n tiles into consecutive groups of one tile or two.
RECURSIVE Groupings(_)
Groupings(n) ==
    IF n = 0 THEN {<<>>}
    ELSE {<<1>> \o g : g \in Groupings(n - 1)}
             \cup (IF n >= 2 THEN {<<2>> \o g : g \in Groupings(n - 2)} ELSE {})

\* Index in the packed input of the first tile of group k.
groupStart(g, k) == 1 + seqSum(SubSeq(g, 1, k - 1))

\* out and delta come from tiles by one pass in which every tile takes part in at
\* most one merge: the tiles are cut, left to right, into single tiles and pairs of
\* equal tiles, a pair wherever a tile equals the one after it; every output tile is
\* one input tile or the double of one pair, and delta adds up the doubles.
mergedOncePerTile(tiles, out, delta) ==
    \E g \in Groupings(Len(tiles)) :
        /\ Len(out) = Len(g)
        /\ \A k \in 1..Len(g) :
              LET s == groupStart(g, k)
              IN  IF g[k] = 2
                  THEN tiles[s] = tiles[s + 1] /\ out[k] = 2 * tiles[s]
                  ELSE out[k] = tiles[s] /\ (s < Len(tiles) => tiles[s] # tiles[s + 1])
        /\ delta = seqSum([k \in 1..Len(g) |-> IF g[k] = 2 THEN out[k] ELSE 0])

(***************************************************************************)
(* Properties.                                                             *)
(***************************************************************************)

\* C1: the line reducer merges each tile at most once per move: every tile of the
\* result is one tile of the line or the double of one pair of equal neighbours
\* taken left to right, never the double of a double; scoreDelta is the sum of the
\* doubles; the result is packed left on BOARD_SIZE cells. [2,2,2,2] gives
\* [4,4,0,0] with 8 and [2,2,2,0] gives [4,2,0,0] with 4.
C1_MergeOncePerTile ==
    output.op = "reduceLeft" =>
        LET res == output.result
        IN  /\ Len(res.mergedRow) = BOARD_SIZE
            /\ res.mergedRow = nonZero(res.mergedRow)
                   \o [k \in 1..(BOARD_SIZE - Len(nonZero(res.mergedRow))) |-> 0]
            /\ mergedOncePerTile(nonZero(input.line), nonZero(res.mergedRow), res.scoreDelta)
            /\ input.line = <<2, 2, 2, 2>> =>
                   res = [mergedRow |-> <<4, 4, 0, 0>>, scoreDelta |-> 8]
            /\ input.line = <<2, 2, 2, 0>> =>
                   res = [mergedRow |-> <<4, 2, 0, 0>>, scoreDelta |-> 4]

\* Three equal tiles have been reduced: only the first pair has merged.
C1_Witness ==
    /\ output.op = "reduceLeft"
    /\ input.line = <<2, 2, 2, 0>>
    /\ output.result.mergedRow = <<4, 2, 0, 0>>

\* C2: hasMoves returns false exactly when the board has no empty cell, no cell
\* equal to its right neighbour and no cell equal to its neighbour below.
C2_HasMovesIffOpening ==
    output.op = "hasMoves" =>
        LET b == input.board
        IN  (output.value = FALSE) <=>
                /\ \A r \in Idx, c \in Idx : b[r][c] # 0
                /\ \A r \in Idx, c \in 1..(BOARD_SIZE - 1) : b[r][c] # b[r][c + 1]
                /\ \A r \in 1..(BOARD_SIZE - 1), c \in Idx : b[r][c] # b[r + 1][c]

\* hasMoves has returned false on a full board without equal neighbours.
C2_Witness ==
    /\ output.op = "hasMoves"
    /\ output.value = FALSE
    /\ tileCount(input.board) = BOARD_SIZE * BOARD_SIZE

\* C3: in every state of the game, gameOver is true exactly when hasMoves of the
\* current board is false.
C3_GameOverIffNoMoves == gameOver <=> ~hasMoves(board)

\* An accepted move and its spawn have just ended the game.
C3_Witness == gameOver /\ outcome = "accepted" /\ ~hasMoves(board)

\* C4: a handleMove call whose resolved board equals the current board leaves
\* board, score and gameOver unchanged (no tile is spawned).
C4_RejectedMoveChangesNothing ==
    [][(/\ pc = "playing"
        /\ ~gameOver
        /\ direction' \in Direction
        /\ resolve(board, direction').newBoard = board)
          => (board' = board /\ score' = score /\ gameOver' = gameOver)]_vars

\* A move has been rejected while the game was on.
C4_Witness ==
    /\ outcome = "rejected"
    /\ ~gameOver
    /\ resolve(board, direction).newBoard = board

\* C5: once gameOver is true, every later handleMove call returns before the
\* switch and board, score and gameOver keep their values.
C5_GameOverIsTerminal ==
    [][gameOver =>
          (/\ board' = board
           /\ score' = score
           /\ gameOver' = gameOver
           /\ outcome' = "ignored")]_vars

\* A move has been attempted after the game ended.
C5_Witness == gameOver /\ outcome = "ignored"

\* C6 as stated: a move raises the sum of the tile values by exactly scoreDelta
\* (read in the claim's favour: strictly whenever scoreDelta is positive).
C6_SumGrowsByScoreDelta ==
    (output.op = "resolve" /\ output.direction \in Direction) =>
        /\ boardSum(output.result.newBoard) = boardSum(input.board) + output.result.scoreDelta
        /\ output.result.scoreDelta > 0 =>
               boardSum(output.result.newBoard) > boardSum(input.board)

\* C6 amended: a move leaves the sum of the tile values unchanged; scoreDelta is
\* never negative and is positive exactly when the move merged tiles, that is when
\* the number of tiles went down.
C6_SumConserved ==
    (output.op = "resolve" /\ output.direction \in Direction) =>
        /\ boardSum(output.result.newBoard) = boardSum(input.board)
        /\ output.result.scoreDelta >= 0
        /\ (output.result.scoreDelta > 0) <=>
               (tileCount(output.result.newBoard) < tileCount(input.board))

\* A move has merged tiles.
C6_Witness ==
    /\ output.op = "resolve"
    /\ output.direction \in Direction
    /\ output.result.scoreDelta > 0
    /\ output.result.newBoard # input.board

\* C7: a move never raises the number of tiles; addRandomTile returns a full board
\* unchanged and otherwise changes exactly one empty cell into a 2 or a 4.
C7_TileCount ==
    /\ (output.op = "resolve" /\ output.direction \in Direction) =>
           tileCount(output.result.newBoard) <= tileCount(input.board)
    /\ output.op = "addRandomTile" =>
           IF tileCount(input.board) = BOARD_SIZE * BOARD_SIZE
           THEN output.board = input.board
           ELSE /\ tileCount(output.board) = tileCount(input.board) + 1
                /\ \E rc \in Idx \X Idx :
                      /\ input.board[rc[1]][rc[2]] = 0
                      /\ output.board[rc[1]][rc[2]] \in {2, 4}
                      /\ \A qd \in (Idx \X Idx) \ {rc} :
                            output.board[qd[1]][qd[2]] = input.board[qd[1]][qd[2]]

\* addRandomTile has been handed a full board.
C7_Witness ==
    /\ output.op = "addRandomTile"
    /\ tileCount(input.board) = BOARD_SIZE * BOARD_SIZE
    /\ output.board = input.board

\* C8: in every state of the game the board has BOARD_SIZE rows of BOARD_SIZE
\* cells and every cell is 0 or a value reached from 2 by doubling.
C8_BoardWellFormed ==
    /\ DOMAIN board = Idx
    /\ \A r \in Idx :
          /\ DOMAIN board[r] = Idx
          /\ \A c \in Idx : board[r][c] = 0 \/ isDoublingOfTwo(board[r][c])

\* A merge has happened in the game and the board holds its double.
C8_Witness ==
    /\ pc = "playing"
    /\ score > 0
    /\ \E r \in Idx, c \in Idx : board[r][c] = 4

\* C9: resolving with a direction outside up, down, left, right fails (the
\* destructuring of the undefined result throws) and yields no MoveResult.
C9_BadDirectionFails ==
    (output.op = "resolve" /\ output.direction \notin Direction) =>
        /\ output.result.threw = "TypeError"
        /\ DOMAIN output.result = {"threw"}

\* The switch has been handed a direction it has no case for.
C9_Witness ==
    /\ output.op = "resolve"
    /\ output.direction = BadDirection
    /\ output.result.threw = "TypeError"

\* C10: after the seeding, while gameOver is false, at least one direction
\* resolves to a board that differs from the current one.
C10_SomeMoveAccepted ==
    (pc = "playing" /\ ~gameOver) =>
        \E d \in Direction : resolve(board, d).newBoard # board

\* The game is on with a full board: only a merge can change it.
C10_Witness ==
    /\ pc = "playing"
    /\ ~gameOver
    /\ tileCount(board) = BOARD_SIZE * BOARD_SIZE
    /\ \E d \in Direction : resolve(board, d).newBoard # board

====
